---- MODULE Spec2Model ----
(***************************************************************************)
(* Model of megatron/ds_text_generation.py:                                *)
(*   - tensor_parallel_sample (lines 80-98): every member of one tensor-   *)
(*     parallel group runs it on its own logits shard; the members meet in *)
(*     torch.distributed.gather.                                           *)
(*   - model_provider's partial(...) that binds the sampling arguments     *)
(*     (line 119).                                                         *)
(*   - get_batch_pipe (lines 175-210).                                     *)
(* A tensor is a record [dtype, shape, init, data]; a 2-D tensor's data is *)
(* a sequence of rows, a 1-D tensor's data a sequence of scalars; init is  *)
(* FALSE for memory that torch.empty_like allocated and nobody wrote.      *)
(***************************************************************************)
EXTENDS Integers, Sequences, FiniteSets, TLC

\* ---------------------------------------------------------------- bounds
MaxW == 3          \* largest tensor-parallel world size
MaxShard == 2      \* largest vocabulary shard per member
MaxBatch == 2      \* largest number of batch rows of the logits
MaxGroup == 1      \* the observed group is the first or the last of groups 0..MaxGroup
MaxDraw == 1       \* random draws of torch.multinomial are 0..MaxDraw
MaxRows == 2       \* get_batch_pipe: largest number of rows of data['text']
MaxLen == 3        \* get_batch_pipe: largest row length L
MaxTok == 1        \* get_batch_pipe: token ids are 0..MaxTok
TopKs == {0, 1, 2}
TopPs == {0}
Temperatures == {1, 2}

VARIABLES
    world_size,    \* W, size of the tensor-parallel group
    tp_group,      \* index of the observed group in the layout
    full_logits,   \* the unsharded logits the shards were cut from
    logits,        \* member -> local variable `logits`
    args,          \* the parsed command line (temperature, top_k, top_p)
    pc,            \* member -> position in tensor_parallel_sample
    tensor_list,   \* member -> local variable `tensor_list`
    gather_dst,    \* member -> dst argument of its gather call (-1: none)
    gather_send,   \* member -> tensor it contributed to the gather
    comm_log,      \* member -> collective operations it issued, in order
    sample_log,    \* member -> calls of sample() it made, with arguments
    new_token,     \* member -> returned tensor
    rng,           \* member -> random draw consumed by sample (-1: none)
    data,          \* get_batch_pipe: the input dict and args it reads
    batch          \* get_batch_pipe: its result

tpvars == <<world_size, tp_group, full_logits, logits, args, pc, tensor_list,
            gather_dst, gather_send, comm_log, sample_log, new_token, rng>>
bvars == <<data, batch>>
vars == <<world_size, tp_group, full_logits, logits, args, pc, tensor_list,
          gather_dst, gather_send, comm_log, sample_log, new_token, rng,
          data, batch>>

\* ---------------------------------------------------------------- tensors
NoTensor == [dtype |-> "none", shape |-> <<>>, init |-> FALSE, data |-> <<>>]

Tensor2(dt, rows) ==
    [dtype |-> dt, shape |-> <<Len(rows), Len(rows[1])>>, init |-> TRUE, data |-> rows]

\* torch.empty_like(t): same shape and dtype, contents not written.
empty_like(t) == [dtype |-> t.dtype, shape |-> t.shape, init |-> FALSE, data |-> <<>>]

\* t[..., i] of a 2-D tensor: drops the last dimension.
SelectLast(t, i) ==
    [dtype |-> t.dtype,
     shape |-> SubSeq(t.shape, 1, Len(t.shape) - 1),
     init |-> t.init,
     data |-> IF t.init THEN [b \in 1..Len(t.data) |-> t.data[b][i + 1]] ELSE <<>>]

RECURSIVE CatRows(_, _)
CatRows(list, b) ==
    IF list = <<>> THEN <<>> ELSE Head(list).data[b] \o CatRows(Tail(list), b)

RECURSIVE SumLast(_)
SumLast(list) ==
    IF list = <<>> THEN 0 ELSE Head(list).shape[2] + SumLast(Tail(list))

\* torch.cat(list, dim=-1) of 2-D tensors, in list order.
cat(list) ==
    [dtype |-> list[1].dtype,
     shape |-> <<list[1].shape[1], SumLast(list)>>,
     init |-> TRUE,
     data |-> [b \in 1..list[1].shape[1] |-> CatRows(list, b)]]

\* ------------------------------------------------- the sampling primitive
\* megatron.text_generation.sampling.sample, on full [batch, vocab] logits.
\* logits / temperature is kept exact as the pair <<numerator, denominator>>.
Div(x, t) == <<x, t>>
Less(a, b) == a[1] * b[2] < b[1] * a[2]

\* torch.argmax over one row: the first index holding the maximum (1-based).
ArgMax(row) ==
    CHOOSE i \in 1..Len(row) :
        /\ \A j \in 1..Len(row) : row[j] <= row[i]
        /\ \A j \in 1..(i - 1) : row[j] < row[i]

\* The k-th largest scaled value of a row, counted with multiplicity.
KthLargest(srow, k) ==
    LET x == CHOOSE i \in 1..Len(srow) :
                 /\ Cardinality({j \in 1..Len(srow) : Less(srow[i], srow[j])}) < k
                 /\ Cardinality({j \in 1..Len(srow) : ~Less(srow[j], srow[i])}) >= k
    IN srow[x]

\* Indices that survive top-k filtering (everything below the k-th largest
\* value is masked); top_k = 0, or top_k above the vocabulary, filters nothing.
\* top_p = 0.0 disables nucleus filtering, the only top_p the model draws.
Kept(srow, top_k, top_p) ==
    IF top_k > 1 /\ top_k <= Len(srow)
    THEN {i \in 1..Len(srow) : ~Less(srow[i], KthLargest(srow, top_k))}
    ELSE 1..Len(srow)

\* torch.multinomial over the kept indices: every kept index has positive
\* probability; the draw selects which one comes out.
Multinomial(kept, draw) ==
    CHOOSE i \in kept :
        Cardinality({j \in kept : j < i}) = draw % Cardinality(kept)

SampleRow(row, top_p, top_k, temperature, draw) ==
    IF top_k = 1
    THEN ArgMax(row) - 1
    ELSE LET srow == [i \in 1..Len(row) |-> Div(row[i], temperature)]
         IN Multinomial(Kept(srow, top_k, top_p), draw) - 1

sample(lg, top_p, top_k, temperature, draw) ==
    [dtype |-> "int64",
     shape |-> <<lg.shape[1]>>,
     init |-> TRUE,
     data |-> [b \in 1..lg.shape[1] |->
                  SampleRow(lg.data[b], top_p, top_k, temperature, draw)]]

\* ------------------------------------------------- process-group discovery
\* megatron.core.parallel_state: a tensor-parallel group is a block of
\* world_size consecutive global ranks; members are named by global rank.
GroupRanks == [i \in 1..world_size |-> tp_group * world_size + (i - 1)]
Members == {GroupRanks[i] : i \in 1..world_size}

get_tensor_model_parallel_world_size == world_size

\* A member's ordinal position in its group's rank list.
get_tensor_model_parallel_rank(p) ==
    (CHOOSE i \in 1..world_size : GroupRanks[i] = p) - 1

\* The global rank of the first member of the caller's group.
get_tensor_model_parallel_src_rank(p) == (p \div world_size) * world_size

\* ------------------------------------------------- tensor_parallel_sample
\* A slip in line 86: the last member allocates instead of the first.
AllocatesBuffers_Last(rank) == rank = world_size - 1

\* line 86: which member allocates the receive buffers.
AllocatesBuffers(rank) == rank = 0

\* A slip in line 90: only the allocating member enters the collective.
IssuesGather_DstOnly(rank) == rank = 0

\* line 90: the gather call stands under no condition.
IssuesGather(rank) == TRUE

\* A slip in line 92: the last member samples instead of the first.
SamplesHere_Last(rank) == rank = world_size - 1

\* line 92: which member concatenates and samples.
SamplesHere(rank) == rank = 0

Reverse(s) == [i \in 1..Len(s) |-> s[Len(s) + 1 - i]]

\* A slip in line 93: the shards are concatenated in descending rank order.
Reassemble_Reversed(tl) == cat(Reverse(tl))

\* line 93: torch.cat(tensor_list, dim=-1).
Reassemble(tl) == cat(tl)

\* A slip in line 96: the vocabulary dimension is kept.
Placeholder_Full(lg) == empty_like(lg)

\* line 96: torch.empty_like(logits[..., 0]).
Placeholder(lg) == empty_like(SelectLast(lg, 0))

\* line 119: partial(tensor_parallel_sample, temperature=..., top_k=..., top_p=...).
SampleFnKwargs(a) ==
    [temperature |-> a.temperature, top_k |-> a.top_k, top_p |-> a.top_p]

\* A slip in line 94: top_k is not handed on, sample() uses its default 0.
SampleCallArgs_NoTopK(kw) ==
    [top_p |-> kw.top_p, top_k |-> 0, temperature |-> kw.temperature]

\* line 94: sample(logits, top_p=top_p, top_k=top_k, temperature=temperature).
SampleCallArgs(kw) ==
    [top_p |-> kw.top_p, top_k |-> kw.top_k, temperature |-> kw.temperature]

\* torch.distributed.gather checks its arguments before it communicates: the
\* destination must be in the group, it alone passes receive buffers, one per
\* participant.
GatherArgsValid(p, dst, tl) ==
    /\ dst \in Members
    /\ (dst = p) <=> (tl # <<>>)
    /\ dst = p => Len(tl) = world_size

\* The collective completes for a member once every member of the group has
\* entered it.
GatherReady == \A q \in Members : pc[q] \in {"gather", "post", "done"}

\* The unsharded logits: row b peaks at position peak + b - 1 (cyclically);
\* elsewhere the values alternate, so that ties occur; peak = 0 is a row
\* without a peak, whose maximum is tied.
FullRow(b, peak, V) ==
    [v \in 1..V |-> IF peak > 0 /\ v = ((peak + b - 2) % V) + 1 THEN 2 ELSE v % 2]

\* Member number r (0-based) holds columns r*S+1 .. (r+1)*S.
Shard(full, r, S) ==
    Tensor2(full.dtype, [b \in 1..Len(full.data) |->
                            SubSeq(full.data[b], r * S + 1, (r + 1) * S)])

NoData == [used |-> FALSE]
NoBatch == [done |-> FALSE]

Init ==
    \E W \in 1..MaxW, g \in {0, MaxGroup}, S \in 1..MaxShard, B \in 1..MaxBatch :
    \E peak \in 0..(W * S) :
    \E tk \in TopKs, tp \in TopPs, T \in Temperatures :
        LET full == Tensor2("float32", [b \in 1..B |-> FullRow(b, peak, W * S)])
            mem == {g * W + r : r \in 0..(W - 1)}
        IN /\ world_size = W
           /\ tp_group = g
           /\ full_logits = full
           /\ logits = [p \in mem |-> Shard(full, p - g * W, S)]
           /\ args = [temperature |-> T, top_k |-> tk, top_p |-> tp]
           /\ pc = [p \in mem |-> "start"]
           /\ tensor_list = [p \in mem |-> <<>>]
           /\ gather_dst = [p \in mem |-> -1]
           /\ gather_send = [p \in mem |-> NoTensor]
           /\ comm_log = [p \in mem |-> <<>>]
           /\ sample_log = [p \in mem |-> <<>>]
           /\ new_token = [p \in mem |-> NoTensor]
           /\ rng = [p \in mem |-> -1]
           /\ data = NoData
           /\ batch = NoBatch

\* lines 82-90, up to the point where the member blocks in the collective.
Enter(p) ==
    /\ pc[p] = "start"
    /\ LET rank == get_tensor_model_parallel_rank(p)
           dst_rank == get_tensor_model_parallel_src_rank(p)
           tl == IF AllocatesBuffers(rank)
                 THEN [i \in 1..get_tensor_model_parallel_world_size |->
                          empty_like(logits[p])]
                 ELSE <<>>
       IN /\ tensor_list' = [tensor_list EXCEPT ![p] = tl]
          /\ IF IssuesGather(rank)
             THEN /\ gather_dst' = [gather_dst EXCEPT ![p] = dst_rank]
                  /\ comm_log' = [comm_log EXCEPT ![p] = Append(@, "gather")]
                  /\ IF GatherArgsValid(p, dst_rank, tl)
                     THEN /\ gather_send' = [gather_send EXCEPT ![p] = logits[p]]
                          /\ pc' = [pc EXCEPT ![p] = "gather"]
                     ELSE /\ pc' = [pc EXCEPT ![p] = "error"]
                          /\ UNCHANGED gather_send
             ELSE /\ pc' = [pc EXCEPT ![p] = "post"]
                  /\ UNCHANGED <<gather_dst, comm_log, gather_send>>
    /\ UNCHANGED <<world_size, tp_group, full_logits, logits, args,
                   sample_log, new_token, rng, data, batch>>

\* The caller of this member never invokes tensor_parallel_sample.
Stall(p) ==
    /\ pc[p] = "start"
    /\ pc' = [pc EXCEPT ![p] = "stalled"]
    /\ UNCHANGED <<world_size, tp_group, full_logits, logits, args, tensor_list,
                   gather_dst, gather_send, comm_log, sample_log, new_token,
                   rng, data, batch>>

\* line 90 returns: buffer i of the destination holds the tensor of the
\* member with group rank i.
GatherReturn(p) ==
    /\ pc[p] = "gather"
    /\ GatherReady
    /\ tensor_list' =
          [tensor_list EXCEPT ![p] =
              IF gather_dst[p] = p
              THEN [i \in 1..world_size |-> gather_send[GroupRanks[i]]]
              ELSE @]
    /\ pc' = [pc EXCEPT ![p] = "post"]
    /\ UNCHANGED <<world_size, tp_group, full_logits, logits, args, gather_dst,
                   gather_send, comm_log, sample_log, new_token, rng, data, batch>>

\* lines 92-98.
Finish(p) ==
    /\ pc[p] = "post"
    /\ LET rank == get_tensor_model_parallel_rank(p)
           kw == SampleFnKwargs(args)
           call == SampleCallArgs(kw)
       IN IF SamplesHere(rank)
          THEN IF tensor_list[p] = <<>>
               THEN /\ pc' = [pc EXCEPT ![p] = "error"]
                    /\ UNCHANGED <<logits, sample_log, new_token, rng>>
               ELSE \E draw \in 0..MaxDraw :
                       LET lg == Reassemble(tensor_list[p])
                       IN /\ logits' = [logits EXCEPT ![p] = lg]
                          /\ sample_log' = [sample_log EXCEPT ![p] =
                                 Append(@, [logits |-> lg, top_p |-> call.top_p,
                                            top_k |-> call.top_k,
                                            temperature |-> call.temperature])]
                          /\ rng' = [rng EXCEPT ![p] = draw]
                          /\ new_token' = [new_token EXCEPT ![p] =
                                 sample(lg, call.top_p, call.top_k,
                                        call.temperature, draw)]
                          /\ pc' = [pc EXCEPT ![p] = "done"]
          ELSE /\ new_token' = [new_token EXCEPT ![p] = Placeholder(logits[p])]
               /\ pc' = [pc EXCEPT ![p] = "done"]
               /\ UNCHANGED <<logits, sample_log, rng>>
    /\ UNCHANGED <<world_size, tp_group, full_logits, args, tensor_list,
                   gather_dst, gather_send, comm_log, data, batch>>

EnterStep == \E p \in Members : Enter(p)
StallStep == \E p \in Members : Stall(p)
GatherReturnStep == \E p \in Members : GatherReturn(p)
FinishStep == \E p \in Members : Finish(p)

Next == EnterStep \/ StallStep \/ GatherReturnStep \/ FinishStep

Spec == Init /\ [][Next]_vars

\* ------------------------------------------------------- get_batch_pipe
\* Python's s[:n].
SliceTo(s, n) ==
    IF n >= 0
    THEN SubSeq(s, 1, IF n < Len(s) THEN n ELSE Len(s))
    ELSE SubSeq(s, 1, Len(s) + n)

\* Python's s[1:].
SliceFrom1(s) == SubSeq(s, 2, Len(s))

\* lines 180-181: a [b, 1, L] text loses its middle dimension; squeeze(1)
\* leaves any other shape alone.
squeeze1(t) ==
    IF Len(t.shape) = 3 /\ t.shape[2] = 1
    THEN [dtype |-> t.dtype, shape |-> <<t.shape[1], t.shape[3]>>, init |-> t.init,
          data |-> [b \in 1..t.shape[1] |-> t.data[b][1]]]
    ELSE t

\* tensor_parallel.broadcast_data(keys, data, torch.int64): every member ends
\* up with the source's values, as int64.
broadcast_data(t) ==
    [dtype |-> "int64", shape |-> t.shape, init |-> t.init, data |-> t.data]

\* megatron.utils.get_ltor_masks_and_position_ids, one row at a time.
\* Position j (1-based) restarts after the last end-of-document before it.
LastEodBefore(row, j, eod) ==
    LET E == {i \in 1..(j - 1) : row[i] = eod}
    IN IF E = {} THEN 0 ELSE CHOOSE i \in E : \A k \in E : k <= i

PositionIds(row, eod, reset_position_ids) ==
    [j \in 1..Len(row) |->
        IF reset_position_ids THEN (j - 1) - LastEodBefore(row, j, eod) ELSE j - 1]

LossMask(row, eod, eod_mask_loss) ==
    [j \in 1..Len(row) |-> IF eod_mask_loss /\ row[j] = eod THEN 0 ELSE 1]

\* TRUE where attention is masked out: above the diagonal, and, with
\* reset_attention_mask, across an end-of-document.
AttentionMask(row, eod, reset_attention_mask) ==
    [q \in 1..Len(row) |-> [k \in 1..Len(row) |->
        ~ (/\ k <= q
           /\ ~ (reset_attention_mask
                 /\ \E i \in 1..Len(row) : row[i] = eod /\ k <= i /\ i < q))]]

get_ltor_masks_and_position_ids(tokens, eod, reset_pos, reset_att, eod_mask_loss) ==
    [attention_mask |->
        [b \in 1..(IF reset_att THEN Len(tokens) ELSE 1) |->
            AttentionMask(tokens[b], eod, reset_att)],
     loss_mask |-> [b \in 1..Len(tokens) |-> LossMask(tokens[b], eod, eod_mask_loss)],
     position_ids |->
        [b \in 1..Len(tokens) |-> PositionIds(tokens[b], eod, reset_pos)]]

\* A slip in line 191: the labels are not shifted.
LabelsOf_NoShift(tokens_) == [b \in 1..Len(tokens_) |-> SliceTo(tokens_[b], -1)]

\* line 191: labels = tokens_[:, 1:].
LabelsOf(tokens_) == [b \in 1..Len(tokens_) |-> SliceFrom1(tokens_[b])]

\* line 192: tokens = tokens_[:, :-1].
TokensOf(tokens_) == [b \in 1..Len(tokens_) |-> SliceTo(tokens_[b], -1)]

\* lines 204-208: x[:, :args.curriculum_seqlen].
Truncate(x, seqlen) == [b \in 1..Len(x) |-> SliceTo(x[b], seqlen)]

\* lines 175-210.
get_batch_pipe(d) ==
    LET text == squeeze1(d.text)
        data_b == broadcast_data(text)
        tokens_ == data_b.data
        labels == LabelsOf(tokens_)
        tokens == TokensOf(tokens_)
        m == get_ltor_masks_and_position_ids(tokens, d.eod, d.reset_position_ids,
                                             d.reset_attention_mask, d.eod_mask_loss)
        cut == d.curriculum_learning_legacy /\ d.curriculum_seqlen < Len(tokens[1])
    IN [done |-> TRUE,
        dtype |-> data_b.dtype,
        tokens |-> IF cut THEN Truncate(tokens, d.curriculum_seqlen) ELSE tokens,
        position_ids |-> IF cut THEN Truncate(m.position_ids, d.curriculum_seqlen)
                         ELSE m.position_ids,
        attention_mask |-> m.attention_mask,
        labels |-> IF cut THEN Truncate(labels, d.curriculum_seqlen) ELSE labels,
        loss_mask |-> IF cut THEN Truncate(m.loss_mask, d.curriculum_seqlen)
                      ELSE m.loss_mask]

\* Row b of the input text: row 1 is free, the others are row 1 shifted in value.
TextRow(row1, b) == [j \in 1..Len(row1) |-> (row1[j] + b - 1) % (MaxTok + 1)]

InitBatch ==
    \E B \in 1..MaxRows, L \in 1..MaxLen, three \in BOOLEAN, eod \in {0, MaxTok} :
    \E row1 \in [1..L -> 0..MaxTok] :
    \E rp \in BOOLEAN, ra \in BOOLEAN, em \in BOOLEAN, cl \in BOOLEAN, cs \in 1..MaxLen :
        /\ data = [used |-> TRUE,
                   text |-> [dtype |-> "int64",
                             shape |-> IF three THEN <<B, 1, L>> ELSE <<B, L>>,
                             init |-> TRUE,
                             data |-> [b \in 1..B |->
                                          IF three THEN <<TextRow(row1, b)>>
                                          ELSE TextRow(row1, b)]],
                   eod |-> eod,
                   reset_position_ids |-> rp,
                   reset_attention_mask |-> ra,
                   eod_mask_loss |-> em,
                   curriculum_learning_legacy |-> cl,
                   curriculum_seqlen |-> cs]
        /\ batch = NoBatch
        /\ world_size = 1
        /\ tp_group = 0
        /\ full_logits = NoTensor
        /\ logits = <<>>
        /\ args = [temperature |-> 1, top_k |-> 0, top_p |-> 0]
        /\ pc = <<>>
        /\ tensor_list = <<>>
        /\ gather_dst = <<>>
        /\ gather_send = <<>>
        /\ comm_log = <<>>
        /\ sample_log = <<>>
        /\ new_token = <<>>
        /\ rng = <<>>

GetBatchPipe ==
    /\ data.used
    /\ ~batch.done
    /\ batch' = get_batch_pipe(data)
    /\ UNCHANGED <<data, world_size, tp_group, full_logits, logits, args, pc,
                   tensor_list, gather_dst, gather_send, comm_log, sample_log,
                   new_token, rng>>

NextBatch == GetBatchPipe

SpecBatch == InitBatch /\ [][NextBatch]_vars

\* ====================================================== properties
IsDst(p) == p = get_tensor_model_parallel_src_rank(p)
Entered(p) == pc[p] \notin {"start", "stalled"}
Sampled(p) == sample_log[p] # <<>>
ShardSize == full_logits.shape[2] \div world_size

\* C1: in one invocation by all W members exactly one member, the
\* destination, calls the sampling primitive (once); every other member
\* returns an unwritten placeholder without sampling, and no member issues
\* a broadcast.
C1_OnlyDestinationSamples ==
    /\ Cardinality({p \in Members : IsDst(p)}) = 1
    /\ \A p \in Members :
          /\ pc[p] \in {"start", "stalled", "gather", "post", "done"}
          /\ (IsDst(p) /\ pc[p] = "done") =>
                (Len(sample_log[p]) = 1 /\ new_token[p].init)
          /\ ~IsDst(p) =>
                (sample_log[p] = <<>> /\ (pc[p] = "done" => ~new_token[p].init))
          /\ \A i \in 1..Len(comm_log[p]) : comm_log[p][i] # "broadcast"
    /\ (\A p \in Members : pc[p] = "done") =>
          Cardinality({p \in Members : Sampled(p)}) = 1

C1_Witness ==
    /\ world_size >= 2
    /\ \A p \in Members : pc[p] = "done"
    /\ \E p \in Members : Sampled(p) /\ new_token[p].init
    /\ \E p \in Members : ~Sampled(p) /\ ~new_token[p].init

\* C2: every member issues the gather exactly once, on every path and
\* before it samples or creates the placeholder; the destination passes
\* exactly W receive buffers, every other member an empty list.
C2_GatherOncePerMember ==
    \A p \in Members :
        /\ pc[p] # "error"
        /\ pc[p] \in {"start", "stalled"} => comm_log[p] = <<>>
        /\ pc[p] \in {"gather", "post", "done"} => comm_log[p] = <<"gather">>
        /\ pc[p] \in {"start", "stalled", "gather"} =>
              (sample_log[p] = <<>> /\ new_token[p] = NoTensor)
        /\ Entered(p) =>
              Len(tensor_list[p]) = (IF gather_dst[p] = p THEN world_size ELSE 0)

C2_Witness ==
    /\ world_size >= 3
    /\ \E p, q, r \in Members :
          /\ pc[p] = "gather" /\ tensor_list[p] = <<>>
          /\ pc[q] = "done" /\ tensor_list[q] = <<>>
          /\ pc[r] = "done" /\ Len(tensor_list[r]) = world_size

\* C3: the member that allocates the receive buffers, concatenates and
\* samples is the member the dst argument of the gather names, whatever the
\* group's place in the layout and its size; all members name the same dst,
\* a member of the group, and no other member passes receive buffers.
C3_AllocatorIsGatherDst ==
    \A p \in Members :
        Entered(p) =>
            /\ gather_dst[p] \in Members
            /\ (tensor_list[p] # <<>>) <=> (gather_dst[p] = p)
            /\ Sampled(p) => gather_dst[p] = p
            /\ \A q \in Members : Entered(q) => gather_dst[q] = gather_dst[p]

C3_Witness ==
    /\ tp_group >= 1
    /\ world_size >= 2
    /\ \A p \in Members : pc[p] = "done"
    /\ \E p \in Members : gather_dst[p] = p /\ p # 0 /\ Sampled(p)

\* C4: the destination's buffers hold the shards in ascending rank order, the
\* logits it samples from equal the unsharded logits position by position,
\* and the token equals the one sample() yields on the unsharded logits with
\* the same random draw.
C4_ReassembledEqualsUnsharded ==
    \A p \in Members :
        (pc[p] = "done" /\ Sampled(p)) =>
            /\ \A i \in 1..world_size :
                  tensor_list[p][i].data = Shard(full_logits, i - 1, ShardSize).data
            /\ sample_log[p][1].logits.shape = full_logits.shape
            /\ sample_log[p][1].logits.data = full_logits.data
            /\ new_token[p] = sample(full_logits, args.top_p, args.top_k,
                                     args.temperature, rng[p])

C4_Witness ==
    \E p \in Members :
        /\ pc[p] = "done" /\ Sampled(p)
        /\ world_size >= 2
        /\ tensor_list[p][1].data # tensor_list[p][world_size].data
        /\ args.top_k # 1

\* C5: while one member of the group has not reached the gather and never
\* will, no member of the group gets out of the gather, let alone returns.
C5_StalledMemberStallsGroup ==
    (\E p \in Members : pc[p] = "stalled") =>
        (\A q \in Members : pc[q] \notin {"post", "done"})

C5_Witness ==
    /\ \E p \in Members : pc[p] = "stalled"
    /\ \E q \in Members : pc[q] = "gather" /\ gather_dst[q] = q
    /\ \E q \in Members : pc[q] = "gather" /\ gather_dst[q] # q

\* C6: a non-destination member's placeholder has the shape of the token
\* tensor the destination returns: the logits' leading dimensions, [batch].
C6_PlaceholderShape ==
    \A p, q \in Members :
        (pc[p] = "done" /\ pc[q] = "done" /\ Sampled(p) /\ ~Sampled(q)) =>
            /\ new_token[q].shape = new_token[p].shape
            /\ new_token[q].shape = <<full_logits.shape[1]>>

C6_Witness ==
    \E p, q \in Members :
        /\ pc[p] = "done" /\ pc[q] = "done" /\ Sampled(p) /\ ~Sampled(q)
        /\ full_logits.shape[1] >= 2

\* C7: a non-destination member's placeholder has the element type of the
\* token tensor the destination returns.
C7_PlaceholderDtype ==
    \A p, q \in Members :
        (pc[p] = "done" /\ pc[q] = "done" /\ Sampled(p) /\ ~Sampled(q)) =>
            new_token[q].dtype = new_token[p].dtype

\* C8: a group of one member performs no collective operation.
C8_NoCollectiveWhenAlone ==
    world_size = 1 => \A p \in Members : comm_log[p] = <<>>

\* C9: the sampling arguments reach sample() as given on the command line,
\* and with top_k = 1, top_p = 0.0 every row's token is an index of the
\* maximum over the whole reassembled vocabulary, whatever the random draw.
C9_GreedyIsGlobalArgMax ==
    \A p \in Members :
        (pc[p] = "done" /\ Sampled(p)) =>
            /\ sample_log[p][1].top_k = args.top_k
            /\ sample_log[p][1].top_p = args.top_p
            /\ sample_log[p][1].temperature = args.temperature
            /\ (args.top_k = 1 /\ args.top_p = 0) =>
                  \A b \in 1..full_logits.shape[1] :
                      LET t == new_token[p].data[b] + 1
                      IN /\ t \in 1..full_logits.shape[2]
                         /\ \A v \in 1..full_logits.shape[2] :
                               full_logits.data[b][v] <= full_logits.data[b][t]

C9_Witness ==
    \E p \in Members :
        /\ pc[p] = "done" /\ Sampled(p)
        /\ args.top_k = 1 /\ args.top_p = 0
        /\ world_size >= 2
        /\ rng[p] >= 1
        /\ new_token[p].data[1] >= ShardSize

\* C10: for rows of length L >= 2, tokens and labels have length L-1 per row,
\* tokens[i][j] is input token j and labels[i][j] input token j+1; under
\* legacy curriculum learning with curriculum_seqlen < L-1 tokens,
\* position_ids, labels and loss_mask all have length curriculum_seqlen, with
\* the same alignment.
InputRow(b) == IF Len(data.text.shape) = 3 THEN data.text.data[b][1] ELSE data.text.data[b]
InputLen == data.text.shape[Len(data.text.shape)]
OutLen ==
    IF data.curriculum_learning_legacy /\ data.curriculum_seqlen < InputLen - 1
    THEN data.curriculum_seqlen
    ELSE InputLen - 1

C10_LabelsAreShiftedTokens ==
    (batch.done /\ InputLen >= 2) =>
        /\ Len(batch.tokens) = data.text.shape[1]
        /\ Len(batch.labels) = data.text.shape[1]
        /\ \A b \in 1..data.text.shape[1] :
              /\ Len(batch.tokens[b]) = OutLen
              /\ Len(batch.labels[b]) = OutLen
              /\ Len(batch.position_ids[b]) = OutLen
              /\ Len(batch.loss_mask[b]) = OutLen
              /\ \A j \in 1..OutLen :
                    /\ batch.tokens[b][j] = InputRow(b)[j]
                    /\ batch.labels[b][j] = InputRow(b)[j + 1]

C10_Witness ==
    /\ batch.done
    /\ InputLen >= 3
    /\ data.curriculum_learning_legacy
    /\ data.curriculum_seqlen < InputLen - 1
    /\ data.text.shape[1] >= 2
    /\ Len(batch.labels[2]) = data.curriculum_seqlen
    /\ batch.labels[1][1] # batch.tokens[1][1]

====
